---- MODULE Spec2Model ----
(***************************************************************************)
(* Model of directory_server.py: the startup sequence of run_server (the   *)
(* readiness gate, the listener's creation, the optional TLS wrapping),    *)
(* the accept loop of ThreadedHTTPServer with one worker thread per        *)
(* connection, and DirectoryHandler answering one request against a        *)
(* filesystem that other processes change while the handler runs.          *)
(***************************************************************************)
EXTENDS Integers, Sequences, FiniteSets, TLC

\* directory_server.py:23
MAX_RETRIES == 10

\* Connections the clients may open during one run.
MaxConns == 2

\* Modification times of the entries: 1..MaxMtime seconds since the epoch.
MaxMtime == 2

\* Filesystem changes by other processes during one request.
MaxChanges == 1

\* Requests of one run of the load test.
MaxRequests == 3

\* An optional command line string: Python's None, or a str.
None == [some |-> FALSE, s |-> <<>>]
Str(s) == [some |-> TRUE, s |-> s]

Conns == 1..MaxConns

VARIABLES
    \* ---- run_server ----
    pc,                 \* position of the main thread in run_server
    skip_drive_check,   \* --skip-drive-check
    certfile,           \* --cert: None or a sequence of characters
    keyfile,            \* --key: None or a sequence of characters
    attempt,            \* polls made by wait_for_google_drive
    waits,              \* time.sleep calls made by wait_for_google_drive
    sock,               \* httpd.socket: "none", "plain" (bound, listening), "tls", "closed"
    wraps,              \* number of context.wrap_socket calls that returned
    exitCode,           \* process exit status, -1 while the process runs
    everBound,          \* history: a listener was created and bound
    gate,               \* outcome of the readiness gate: "pending", "skipped", "ok", "exhausted"
    \* ---- ThreadedHTTPServer.serve_forever ----
    accepting,          \* 0: the listener thread is in its select loop;
                        \* c: it is inside get_request() for connection c
    conn,               \* state of every client connection
    \* ---- DirectoryHandler, one request ----
    fs,                 \* the served directory: entry name -> node
    req,                \* the request: [method, path]
    h,                  \* the handler's position and locals
    responses,          \* the responses written to the connection, in order
    raised,             \* an exception escaped the handler
    changes,            \* filesystem changes made by other processes so far
    hist,               \* history: what the stat calls of this listing met
    \* ---- load_test.py: run_load_test ----
    num_requests,       \* -n: the number of requests of the run
    replies,            \* history: what each completed request met
    results,            \* the result dicts, in completion order
    stats               \* the statistics, once computed

startVars == <<pc, skip_drive_check, certfile, keyfile, attempt, waits, sock,
               wraps, exitCode, everBound, gate>>
connVars == <<accepting, conn>>
hVars == <<fs, req, h, responses, raised, changes, hist>>
ltVars == <<num_requests, replies, results, stats>>
vars == <<startVars, connVars, hVars, ltVars>>

(***************************************************************************)
(* Command line values.  A path is a sequence of characters; "q" stands    *)
(* for a double quote and "s" for a single quote, the two characters       *)
(* run_server strips.  The files that exist: "g" holds a certificate and   *)
(* its key (combined PEM), "c" a certificate only, "k" the key only.       *)
(***************************************************************************)
CertArgs == {None} \cup {Str(p) : p \in {<<>>, <<"g">>, <<"c">>, <<"x">>,
                <<"q", "g", "q">>, <<"s", "c", "s">>, <<"q", "q">>}}
KeyArgs == {None} \cup {Str(p) : p \in {<<>>, <<"k">>, <<"x">>, <<"q", "k", "q">>}}

\* str.strip(ch): drops every leading and trailing ch.
RECURSIVE LStrip(_, _)
LStrip(s, ch) ==
    IF s # <<>> /\ Head(s) = ch THEN LStrip(Tail(s), ch) ELSE s

RECURSIVE RStrip(_, _)
RStrip(s, ch) ==
    IF s # <<>> /\ s[Len(s)] = ch THEN RStrip(SubSeq(s, 1, Len(s) - 1), ch) ELSE s

Strip(s, ch) == RStrip(LStrip(s, ch), ch)

\* certfile.strip('"').strip("'")
CleanPath(p) == Str(Strip(Strip(p.s, "q"), "s"))

\* Python truthiness of an optional string.
Truthy(p) == p.some /\ p.s # <<>>

\* The certfile and keyfile handed to load_cert_chain (lines 254-261).
EffectiveCert == CleanPath(certfile)

EffectiveKey ==
    LET k == IF Truthy(keyfile) THEN CleanPath(keyfile) ELSE keyfile
    IN  IF Truthy(k) THEN k ELSE EffectiveCert

\* ssl.SSLContext.load_cert_chain: succeeds when certfile holds a
\* certificate and keyfile holds its private key.
HasCert(p) == p.s \in {<<"g">>, <<"c">>}
HasKey(p) == p.s \in {<<"g">>, <<"k">>}
LoadCertChainOK == HasCert(EffectiveCert) /\ HasKey(EffectiveKey)

Running == exitCode = -1

(***************************************************************************)
(* load_test.py                                                            *)
(***************************************************************************)
\* What urlopen and response.read() can meet.  "urlerror": the connection
\* fails or times out (URLError); "httperror": a status outside 2xx, which
\* urlopen raises as HTTPError, a URLError; "timeout": the read times out;
\* "response": a 2xx response with its status and body.  A body is bytes
\* that are not JSON ("invalid"), a JSON object (with or without the key
\* total_items) or a JSON array.
Bodies ==
    {[json |-> "invalid", has_total |-> FALSE, total_items |-> 0],
     [json |-> "array", has_total |-> FALSE, total_items |-> 0],
     [json |-> "object", has_total |-> FALSE, total_items |-> 0]}
        \cup [json : {"object"}, has_total : {TRUE}, total_items : {0, 2}]

NoReplyBody == [json |-> "invalid", has_total |-> FALSE, total_items |-> 0]

Replies ==
    {[kind |-> "urlerror", status |-> 0, body |-> NoReplyBody],
     [kind |-> "timeout", status |-> 0, body |-> NoReplyBody],
     [kind |-> "httperror", status |-> 404, body |-> NoReplyBody]}
        \cup [kind : {"response"}, status : {200}, body : Bodies]
        \cup [kind : {"response"}, status : {206},
              body : {[json |-> "object", has_total |-> TRUE, total_items |-> 2]}]

\* make_request (lines 17-47), without the duration: the result dict.
make_request(reply) ==
    IF reply.kind # "response"
    THEN [success |-> FALSE, status |-> 0, items |-> 0, error |-> reply.kind]
    ELSE IF reply.status # 200
         THEN [success |-> FALSE, status |-> reply.status, items |-> 0, error |-> "none"]
         ELSE IF reply.body.json = "invalid"
              THEN [success |-> FALSE, status |-> 200, items |-> 0, error |-> "JSONDecodeError"]
              ELSE IF reply.body.json # "object"
                   THEN [success |-> FALSE, status |-> 200, items |-> 0,
                         error |-> "AttributeError"]
                   ELSE [success |-> TRUE, status |-> 200,
                         items |-> IF reply.body.has_total
                                   THEN reply.body.total_items ELSE 0,
                         error |-> "none"]

NoStats == [done |-> FALSE, total_requests |-> 0, successful |-> 0, failed |-> 0]

LoadTestIdle ==
    /\ num_requests = 0
    /\ replies = <<>>
    /\ results = <<>>
    /\ stats = NoStats

\* lines 60-67: a submitted request completes and its result is appended.
RequestCompletes(reply) ==
    /\ ~stats.done
    /\ Len(results) < num_requests
    /\ replies' = Append(replies, reply)
    /\ results' = Append(results, make_request(reply))
    /\ UNCHANGED <<startVars, connVars, hVars, num_requests, stats>>

\* lines 77-85: the statistics, once every request has completed.
ComputeStats ==
    /\ ~stats.done
    /\ Len(results) = num_requests
    /\ stats' = [done |-> TRUE,
                 total_requests |-> num_requests,
                 successful |-> Len(SelectSeq(results, LAMBDA r : r.success)),
                 failed |-> Len(SelectSeq(results, LAMBDA r : ~r.success))]
    /\ UNCHANGED <<startVars, connVars, hVars, num_requests, replies, results>>

(***************************************************************************)
(* run_server                                                              *)
(***************************************************************************)
StartInit ==
    /\ pc = "start"
    /\ skip_drive_check \in BOOLEAN
    /\ certfile \in CertArgs
    /\ keyfile \in KeyArgs
    /\ attempt = 0
    /\ waits = 0
    /\ sock = "none"
    /\ wraps = 0
    /\ exitCode = -1
    /\ everBound = FALSE
    /\ gate = "pending"

ConnInit ==
    /\ accepting = 0
    /\ conn = [c \in Conns |-> "new"]

\* line 240: if not skip_drive_check
EnterGate ==
    /\ Running /\ pc = "start"
    /\ IF skip_drive_check
       THEN pc' = "create" /\ gate' = "skipped"
       ELSE pc' = "poll" /\ gate' = gate
    /\ UNCHANGED <<skip_drive_check, certfile, keyfile, attempt, waits, sock,
                   wraps, exitCode, everBound, connVars, hVars, ltVars>>

\* lines 90-101: one iteration of the loop of wait_for_google_drive;
\* is_google_drive_running() answers running or not.
\* PollStep with the loop bound off by one: range(1, MAX_RETRIES + 2).
PollStepOneMore(running) ==
    /\ attempt' = attempt + 1
    /\ IF running
       THEN pc' = "create" /\ gate' = "ok" /\ waits' = waits
       ELSE IF attempt + 1 < MAX_RETRIES + 1
            THEN pc' = "poll" /\ gate' = gate /\ waits' = waits + 1
            ELSE pc' = "gate_failed" /\ gate' = "exhausted" /\ waits' = waits

\* PollStep that sleeps after every failed poll, the last one included.
PollStepSleepAlways(running) ==
    /\ attempt' = attempt + 1
    /\ IF running
       THEN pc' = "create" /\ gate' = "ok" /\ waits' = waits
       ELSE IF attempt + 1 < MAX_RETRIES
            THEN pc' = "poll" /\ gate' = gate /\ waits' = waits + 1
            ELSE pc' = "gate_failed" /\ gate' = "exhausted" /\ waits' = waits + 1

PollStep(running) ==
    /\ attempt' = attempt + 1
    /\ IF running
       THEN pc' = "create" /\ gate' = "ok" /\ waits' = waits
       ELSE IF attempt + 1 < MAX_RETRIES
            THEN pc' = "poll" /\ gate' = gate /\ waits' = waits + 1
            ELSE pc' = "gate_failed" /\ gate' = "exhausted" /\ waits' = waits

Poll ==
    /\ Running /\ pc = "poll"
    /\ \E running \in BOOLEAN : PollStep(running)
    /\ UNCHANGED <<skip_drive_check, certfile, keyfile, sock, wraps, exitCode,
                   everBound, connVars, hVars, ltVars>>

\* lines 241-242: wait_for_google_drive() returned False
GateExit ==
    /\ Running /\ pc = "gate_failed"
    /\ pc' = "exited"
    /\ exitCode' = 1
    /\ UNCHANGED <<skip_drive_check, certfile, keyfile, attempt, waits, sock,
                   wraps, everBound, gate, connVars, hVars, ltVars>>

\* lines 247-248: HTTPServer.__init__ binds the address and listens; a
\* bind error (port in use) is not caught and ends the process.
CreateListener ==
    /\ Running /\ pc = "create"
    /\ \E bindOK \in BOOLEAN :
        IF bindOK
        THEN /\ sock' = "plain"
             /\ everBound' = TRUE
             /\ pc' = "tls"
             /\ exitCode' = exitCode
        ELSE /\ sock' = sock
             /\ everBound' = everBound
             /\ pc' = "exited"
             /\ exitCode' = 1
    /\ UNCHANGED <<skip_drive_check, certfile, keyfile, attempt, waits, wraps,
                   gate, connVars, hVars, ltVars>>

\* TlsFailure that logs the error and goes on serving the unwrapped socket.
TlsFailureFallback == pc' = "serve" /\ sock' = sock /\ wraps' = wraps

\* The branch taken when load_cert_chain or wrap_socket raises (line 271).
TlsFailure == pc' = "tls_failed" /\ sock' = sock /\ wraps' = wraps

\* lines 252-273: the optional TLS wrapping of the listening socket.
EnableTls ==
    /\ Running /\ pc = "tls"
    /\ IF ~Truthy(certfile)
       THEN pc' = "serve" /\ sock' = sock /\ wraps' = wraps
       ELSE IF LoadCertChainOK
            THEN \E wrapOK \in BOOLEAN :
                    IF wrapOK
                    THEN pc' = "serve" /\ sock' = "tls" /\ wraps' = wraps + 1
                    ELSE TlsFailure
            ELSE TlsFailure
    /\ UNCHANGED <<skip_drive_check, certfile, keyfile, attempt, waits,
                   exitCode, everBound, gate, connVars, hVars, ltVars>>

\* lines 272-273: logger.error(...); sys.exit(1).  The listening socket is
\* released with the process.
TlsExit ==
    /\ Running /\ pc = "tls_failed"
    /\ pc' = "exited"
    /\ exitCode' = 1
    /\ sock' = "closed"
    /\ UNCHANGED <<skip_drive_check, certfile, keyfile, attempt, waits, wraps,
                   everBound, gate, connVars, hVars, ltVars>>

(***************************************************************************)
(* Clients and the accept loop                                             *)
(***************************************************************************)
Listening == Running /\ sock \in {"plain", "tls"}

\* A client connects: the kernel completes the TCP handshake and queues
\* the connection in the backlog of the listening socket.
ClientConnect(c) ==
    /\ Listening
    /\ conn[c] = "new"
    /\ conn' = [conn EXCEPT ![c] = "queued"]
    /\ UNCHANGED <<startVars, accepting, hVars, ltVars>>

\* What get_request() does with the connection it takes from the backlog:
\* socket.accept() returns at once; SSLSocket.accept() wraps the new socket
\* and performs the TLS handshake before it returns.
GetRequest(c) ==
    IF sock = "tls"
    THEN /\ accepting' = c
         /\ conn' = [conn EXCEPT ![c] = "handshake"]
    ELSE /\ accepting' = 0
         /\ conn' = [conn EXCEPT ![c] = "handling"]

\* serve_forever -> _handle_request_noblock: get_request(), then
\* process_request() starts the worker thread.
Accept(c) ==
    /\ Running /\ pc = "serve"
    /\ accepting = 0
    /\ conn[c] = "queued"
    /\ GetRequest(c)
    /\ UNCHANGED <<startVars, hVars, ltVars>>

\* The client completes the TLS handshake: accept() returns and the
\* listener starts the worker thread.
HandshakeDone(c) ==
    /\ Running /\ pc = "serve"
    /\ accepting = c
    /\ conn[c] = "handshake"
    /\ accepting' = 0
    /\ conn' = [conn EXCEPT ![c] = "handling"]
    /\ UNCHANGED <<startVars, hVars, ltVars>>

\* The client breaks the handshake off (closes, sends plaintext): accept()
\* raises ssl.SSLError, an OSError, which _handle_request_noblock swallows.
HandshakeFail(c) ==
    /\ Running /\ pc = "serve"
    /\ accepting = c
    /\ conn[c] = "handshake"
    /\ accepting' = 0
    /\ conn' = [conn EXCEPT ![c] = "hs_failed"]
    /\ UNCHANGED <<startVars, hVars, ltVars>>

\* The worker thread of connection c finishes: the handler wrote its
\* response, or it raised and process_request_thread caught the exception
\* (handle_error, shutdown_request).
WorkerFinish(c) ==
    /\ Running
    /\ conn[c] = "handling"
    /\ \E failed \in BOOLEAN :
        conn' = [conn EXCEPT ![c] = IF failed THEN "dropped" ELSE "responded"]
    /\ UNCHANGED <<startVars, accepting, hVars, ltVars>>

\* lines 280-282: a KeyboardInterrupt is raised in the main thread, which
\* is inside serve_forever().  The exception leaves the serve loop (and
\* get_request(), if the listener was inside a TLS handshake); the finally
\* clause of serve_forever sets the event that shutdown() waits for.
Interrupt ==
    /\ Running /\ pc = "serve"
    /\ pc' = "interrupted"
    /\ accepting' = 0
    /\ conn' = [c \in Conns |-> IF conn[c] = "handshake" THEN "abandoned" ELSE conn[c]]
    /\ UNCHANGED <<skip_drive_check, certfile, keyfile, attempt, waits, sock,
                   wraps, exitCode, everBound, gate, hVars, ltVars>>

\* lines 283-284: httpd.shutdown() returns, the event being set already.
Shutdown ==
    /\ Running /\ pc = "interrupted"
    /\ pc' = "shut_down"
    /\ UNCHANGED <<skip_drive_check, certfile, keyfile, attempt, waits, sock,
                   wraps, exitCode, everBound, gate, connVars, hVars, ltVars>>

\* ProcessExit of a server whose worker threads are not daemon threads:
\* the interpreter joins them before it exits.
ProcessExitJoinsWorkers ==
    /\ Running /\ pc = "shut_down"
    /\ \A c \in Conns : conn[c] # "handling"
    /\ pc' = "stopped"
    /\ exitCode' = 0
    /\ sock' = "closed"
    /\ UNCHANGED <<skip_drive_check, certfile, keyfile, attempt, waits, wraps,
                   everBound, gate, connVars, hVars, ltVars>>

\* run_server and main return and the interpreter exits with status 0.
\* The worker threads are daemon threads (line 236) and are not joined;
\* the listening socket, which the code never closes itself, is released
\* with the process.
ProcessExit ==
    /\ Running /\ pc = "shut_down"
    /\ pc' = "stopped"
    /\ exitCode' = 0
    /\ sock' = "closed"
    /\ UNCHANGED <<skip_drive_check, certfile, keyfile, attempt, waits, wraps,
                   everBound, gate, connVars, hVars, ltVars>>

(***************************************************************************)
(* Strings.  A string is a sequence of tokens: "/" is the path separator,  *)
(* "." the extension separator, "?" and "#" delimit the query and the      *)
(* fragment, ".." is the parent directory, "%2e%2e" its percent-encoded    *)
(* spelling, "%00" a percent-encoded NUL byte and "NUL" the byte itself,   *)
(* "q" the double quote, "%2e" and "%22" the percent-encoded "." and "q".  *)
(***************************************************************************)
Max(S) == CHOOSE x \in S : \A y \in S : y <= x
Min(S) == CHOOSE x \in S : \A y \in S : x <= y

\* str.find / str.rfind, 1-based; 0 when the token does not occur.
Find(s, t) ==
    LET I == {i \in 1..Len(s) : s[i] = t} IN IF I = {} THEN 0 ELSE Min(I)
RFind(s, t) ==
    LET I == {i \in 1..Len(s) : s[i] = t} IN IF I = {} THEN 0 ELSE Max(I)

\* s.split(t, 1)[0]
BeforeFirst(s, t) == IF Find(s, t) = 0 THEN s ELSE SubSeq(s, 1, Find(s, t) - 1)

EndsWith(s, t) == s # <<>> /\ s[Len(s)] = t

\* str.lower()
LowerTok(t) ==
    CASE t = "PDF" -> "pdf"
      [] t = "PPTX" -> "pptx"
      [] OTHER -> t
Lower(s) == [i \in 1..Len(s) |-> LowerTok(s[i])]

\* urllib.parse.unquote
UnquoteTok(t) ==
    CASE t = "%2e%2e" -> ".."
      [] t = "%2e" -> "."
      [] t = "%22" -> "q"
      [] t = "%00" -> "NUL"
      [] OTHER -> t
Unquote(s) == [i \in 1..Len(s) |-> UnquoteTok(s[i])]

\* s.split(sep): the components between the separators, empty ones included.
RECURSIVE Split(_, _)
Split(s, sep) ==
    IF Find(s, sep) = 0
    THEN <<s>>
    ELSE <<SubSeq(s, 1, Find(s, sep) - 1)>>
            \o Split(SubSeq(s, Find(s, sep) + 1, Len(s)), sep)

\* sep.join(comps)
RECURSIVE Join(_, _)
Join(comps, sep) ==
    IF comps = <<>> THEN <<>>
    ELSE IF Len(comps) = 1 THEN comps[1]
    ELSE comps[1] \o <<sep>> \o Join(Tail(comps), sep)

\* The loop of posixpath.normpath over the components of the path.
RECURSIVE NormComps(_, _, _)
NormComps(comps, new_comps, initial_slashes) ==
    IF comps = <<>> THEN new_comps
    ELSE LET comp == Head(comps) IN
         IF comp \in {<<>>, <<".">>}
         THEN NormComps(Tail(comps), new_comps, initial_slashes)
         ELSE IF \/ comp # <<"..">>
                 \/ (~initial_slashes /\ new_comps = <<>>)
                 \/ (new_comps # <<>> /\ new_comps[Len(new_comps)] = <<"..">>)
              THEN NormComps(Tail(comps), Append(new_comps, comp), initial_slashes)
              ELSE IF new_comps # <<>>
                   THEN NormComps(Tail(comps),
                                  SubSeq(new_comps, 1, Len(new_comps) - 1),
                                  initial_slashes)
                   ELSE NormComps(Tail(comps), new_comps, initial_slashes)

\* posixpath.normpath
NormPath(path) ==
    IF path = <<>> THEN <<".">>
    ELSE LET initial_slashes == path[1] = "/"
             joined == Join(NormComps(Split(path, "/"), <<>>, initial_slashes), "/")
             out == IF initial_slashes THEN <<"/">> \o joined ELSE joined
         IN  IF out = <<>> THEN <<".">> ELSE out

\* The words translate_path keeps: no empty word, no "." and no "..".
KeptWords(words) ==
    SelectSeq(words, LAMBDA w : w # <<>> /\ w \notin {<<".">>, <<"..">>})

\* SimpleHTTPRequestHandler.translate_path: the path below self.directory
\* (the working directory, which run_server set to the served root) as its
\* words, and whether it ends with a separator.
translate_path(path) ==
    LET p == BeforeFirst(BeforeFirst(path, "?"), "#")
    IN  [words |-> KeptWords(Split(NormPath(Unquote(p)), "/")),
         slash |-> EndsWith(p, "/")]

\* genericpath._splitext: the extension, with its dot, or the empty string.
splitext(p) ==
    LET sepIndex == RFind(p, "/")
        dotIndex == RFind(p, ".")
    IN  IF dotIndex > sepIndex
           /\ \E i \in (sepIndex + 1)..(dotIndex - 1) : p[i] # "."
        THEN SubSeq(p, dotIndex, Len(p))
        ELSE <<>>

\* os.path.basename
basename(p) == SubSeq(p, RFind(p, "/") + 1, Len(p))

\* os.path.join(a, b) for a relative b
PathJoin(a, b) == IF a = <<>> \/ EndsWith(a, "/") THEN a \o b ELSE a \o <<"/">> \o b

\* str.replace("//", "/"): left to right, without overlap.
RECURSIVE ReplaceDoubleSep(_)
ReplaceDoubleSep(s) ==
    IF Len(s) < 2 THEN s
    ELSE IF s[1] = "/" /\ s[2] = "/"
         THEN <<"/">> \o ReplaceDoubleSep(SubSeq(s, 3, Len(s)))
         ELSE <<s[1]>> \o ReplaceDoubleSep(Tail(s))

(***************************************************************************)
(* The filesystem below the served root: a flat directory.  An entry is    *)
(* absent, a regular file, a (empty) subdirectory, or a symbolic link to   *)
(* one of these; a link whose target is absent is a broken link.  mtime    *)
(* and kind are those of the target, which is what os.stat reports.        *)
(***************************************************************************)
NameA == <<"a">>
NameB == <<"b", ".", "PDF">>
NameIndex == <<"index", ".", "html">>
Names == {NameA, NameB, NameIndex}

Absent == [kind |-> "absent", link |-> FALSE, mtime |-> 0]
Broken == [kind |-> "absent", link |-> TRUE, mtime |-> 0]
Nodes == {Absent, Broken}
            \cup [kind : {"file", "dir"}, link : {FALSE}, mtime : 1..MaxMtime]

\* The nodes an entry takes in the runs explored: "a" takes every node,
\* "b.PDF" is never a directory, and index.html is absent, a file or a
\* broken link.
NodesOf(n) ==
    CASE n = NameIndex -> {Absent, Broken, [kind |-> "file", link |-> FALSE, mtime |-> 1]}
      [] n = NameB -> {node \in Nodes : node.kind # "dir"}
      [] OTHER -> Nodes

FileSystems == {f \in [Names -> Nodes] : \A n \in Names : f[n] \in NodesOf(n)}

\* st_size of a node
StSize(node) == IF node.kind = "file" THEN 7 ELSE 64

\* The node a translated path names.
Lookup(p) ==
    IF Len(p.words) = 1 /\ p.words[1] \in DOMAIN fs
    THEN IF p.slash /\ fs[p.words[1]].kind # "dir" THEN Absent ELSE fs[p.words[1]]
    ELSE Absent

HasNul(p) == \E i \in 1..Len(p.words) : \E j \in 1..Len(p.words[i]) : p.words[i][j] = "NUL"

\* os.path.isdir: False on every OSError and ValueError
isdir(p) == p.words = <<>> \/ Lookup(p).kind = "dir"

\* os.path.isfile(os.path.join(path, index)) for a directory path
isfile_index(p, index) ==
    p.words = <<>> /\ index \in DOMAIN fs /\ fs[index].kind = "file"

\* The entries os.listdir sees in the root.
Listed == {n \in DOMAIN fs : fs[n].kind # "absent" \/ fs[n].link}

\* Every order in which the filesystem may enumerate a set of names.
Orders(S) ==
    {o \in [1..Cardinality(S) -> S] :
        \A i, j \in 1..Cardinality(S) : i # j => o[i] # o[j]}

(***************************************************************************)
(* DirectoryHandler                                                        *)
(***************************************************************************)
\* The requests a client may send on the connection.
RequestPaths ==
    { <<"/">>,
      <<"/", "?", "x">>,
      <<"/", "..", "/">>,
      <<"/", "%2e%2e", "/", "a">>,
      <<"/", "a">>,
      <<"/", "a", "/">>,
      <<"/", "b", ".", "PDF">>,
      <<"/", "%00">> }

\* A request line parse_request rejects (a single word, an invalid HTTP
\* version): send_error is called before self.path is assigned.
MalformedRequest == [method |-> "BAD", path |-> <<>>]

Requests ==
    {[method |-> "GET", path |-> p] : p \in RequestPaths}
        \cup {[method |-> "OPTIONS", path |-> <<"/", "a">>],
              [method |-> "POST", path |-> <<"/">>],
              MalformedRequest}

\* The four headers end_headers adds to every response (lines 115-118).
CorsHeaders ==
    { <<"Access-Control-Allow-Origin", "*">>,
      <<"Access-Control-Allow-Methods", "GET, OPTIONS">>,
      <<"Access-Control-Allow-Headers", "Range">>,
      <<"Access-Control-Max-Age", "86400">> }

force_download_extensions == {<<".", "ppsx">>, <<".", "pptx">>, <<".", "ppt">>, <<".", "pps">>}

\* filename.replace('"', '\\"'): "q" is the double quote, "\\" the backslash
EscapeQuotes(s) ==
    LET F[i \in 0..Len(s)] ==
            IF i = 0 THEN <<>>
            ELSE F[i - 1] \o (IF s[i] = "q" THEN <<"\\", "q">> ELSE <<s[i]>>)
    IN  F[Len(s)]

\* end_headers that forces the download only on a 200 response.
end_headers_on_200(resp, path) ==
    LET p == BeforeFirst(path, "?")
        ext == Lower(splitext(p))
    IN  [resp EXCEPT
            !.cors = CorsHeaders,
            !.disposition = IF ext \in force_download_extensions /\ resp.status = 200
                            THEN Str(EscapeQuotes(basename(p)))
                            ELSE None]

\* DirectoryHandler.end_headers (lines 113-134): the headers it adds to the
\* response being written for the request path self.path.
end_headers(resp, path) ==
    LET p == BeforeFirst(path, "?")
        ext == Lower(splitext(p))
    IN  [resp EXCEPT
            !.cors = CorsHeaders,
            !.disposition = IF ext \in force_download_extensions
                            THEN Str(EscapeQuotes(basename(p)))
                            ELSE None]

NoBody == [kind |-> "empty"]

Headers(status, ctype, clen, body) ==
    [status |-> status, ctype |-> ctype, clen |-> clen, body |-> body,
     location |-> None, cors |-> {}, disposition |-> None]

\* send_error that writes its headers without DirectoryHandler.end_headers.
send_error_plain(code, path) ==
    Headers(code, "text/html;charset=utf-8", 335, [kind |-> "error"])

\* BaseHTTPRequestHandler.send_error: an HTML error page
send_error(code, path) ==
    end_headers(Headers(code, "text/html;charset=utf-8", 335, [kind |-> "error"]), path)

\* DirectoryHandler.guess_type (lines 141-165) for the last word of a path
mime_types(ext) ==
    CASE ext = <<".", "ppsx">> -> "application/vnd.openxmlformats-officedocument.presentationml.slideshow"
      [] ext = <<".", "pptx">> -> "application/vnd.openxmlformats-officedocument.presentationml.presentation"
      [] ext = <<".", "ppt">> -> "application/vnd.ms-powerpoint"
      [] ext = <<".", "pps">> -> "application/vnd.ms-powerpoint"
      [] ext = <<".", "pdf">> -> "application/pdf"
      [] ext = <<".", "docx">> -> "application/vnd.openxmlformats-officedocument.wordprocessingml.document"
      [] ext = <<".", "doc">> -> "application/msword"
      [] ext = <<".", "xlsx">> -> "application/vnd.openxmlformats-officedocument.spreadsheetml.sheet"
      [] ext = <<".", "xls">> -> "application/vnd.ms-excel"
      [] ext = <<".", "html">> -> "text/html"
      [] OTHER -> "application/octet-stream"

guess_type(name) == mime_types(Lower(splitext(name)))

\* The number of bytes of json.dumps(response_data, indent=2).encode('utf-8'):
\* the fixed punctuation and keys, plus the variable-length strings.
RECURSIVE EntriesLen(_)
EntriesLen(entries) ==
    IF entries = <<>> THEN 0
    ELSE 160 + Len(Head(entries).name) + Len(Head(entries).path)
             + Head(entries).size_bytes + EntriesLen(Tail(entries))

EncodedLen(data) == 90 + Len(data.directory) + EntriesLen(data.files)

NoStat == [modified_timestamp |-> 0, modified_iso |-> None, size_bytes |-> 0]

\* datetime.fromtimestamp(t).isoformat()
IsoFormat(t) == Str(<<"iso", t>>)

HIdle ==
    [pc |-> "idle", path |-> [words |-> <<>>, slash |-> FALSE],
     file_list |-> <<>>, idx |-> 0, st |-> NoStat, files |-> <<>>]

HistInit ==
    [statFailed |-> {}, gone |-> {}, touched |-> FALSE, cleanGone |-> FALSE,
     listdirs |-> 0, listFailed |-> FALSE]

HandlerIdle ==
    /\ h = HIdle
    /\ responses = <<>>
    /\ raised = FALSE
    /\ changes = 0
    /\ hist = HistInit

\* The handler ends with one response written.
Respond(resp) ==
    /\ responses' = Append(responses, resp)
    /\ h' = [h EXCEPT !.pc = "done"]
    /\ raised' = raised

\* do_OPTIONS that answers as do_GET does: it goes on to send_head.
do_OPTIONS_as_GET ==
    /\ h' = [h EXCEPT !.pc = "send_head"]
    /\ UNCHANGED <<responses, raised>>

\* DirectoryHandler.do_OPTIONS (lines 136-139): send_response(200) and
\* end_headers(), nothing else.
do_OPTIONS ==
    Respond(end_headers(Headers(200, "", 0, NoBody), req.path))

\* handle_one_request (inherited): dispatch on the method.  do_OPTIONS
\* (lines 136-139) answers at once; a method without a do_ method gets 501.
\* For a malformed request line send_error(400) reaches end_headers, whose
\* self.path (line 121) raises AttributeError before anything is written.
HStart ==
    /\ h.pc = "idle"
    /\ CASE req.method = "BAD" ->
                /\ raised' = TRUE
                /\ h' = [h EXCEPT !.pc = "done"]
                /\ responses' = responses
         [] req.method = "OPTIONS" -> do_OPTIONS
         [] req.method = "GET" ->
                /\ h' = [h EXCEPT !.pc = "send_head"]
                /\ UNCHANGED <<responses, raised>>
         [] OTHER -> Respond(send_error(501, req.path))
    /\ UNCHANGED <<startVars, connVars, ltVars, fs, req, changes, hist>>

\* send_head (inherited): translate the path and test os.path.isdir; a
\* directory requested without its trailing separator is redirected.
HSendHead ==
    /\ h.pc = "send_head"
    /\ LET path == translate_path(req.path) IN
        IF isdir(path)
        THEN IF ~EndsWith(BeforeFirst(BeforeFirst(req.path, "#"), "?"), "/")
             THEN Respond([end_headers(Headers(301, "", 0, NoBody), req.path)
                            EXCEPT !.location =
                                Str(BeforeFirst(BeforeFirst(req.path, "#"), "?") \o <<"/">>)])
             ELSE /\ h' = [h EXCEPT !.pc = "index", !.path = path, !.idx = 1]
                  /\ UNCHANGED <<responses, raised>>
        ELSE /\ h' = [h EXCEPT !.pc = "open", !.path = path]
             /\ UNCHANGED <<responses, raised>>
    /\ UNCHANGED <<startVars, connVars, ltVars, fs, req, changes, hist>>

index_pages == <<NameIndex, <<"index", ".", "htm">>>>

\* send_head: for index in self.index_pages: os.path.isfile(...)
HIndex ==
    /\ h.pc = "index"
    /\ IF isfile_index(h.path, index_pages[h.idx])
       THEN h' = [h EXCEPT !.pc = "open",
                           !.path = [words |-> h.path.words \o <<index_pages[h.idx]>>,
                                     slash |-> FALSE]]
       ELSE IF h.idx < Len(index_pages)
            THEN h' = [h EXCEPT !.idx = h.idx + 1]
            ELSE h' = [h EXCEPT !.pc = "listdir"]
    /\ UNCHANGED <<startVars, connVars, ltVars, fs, req, responses, raised, changes, hist>>

\* send_head: guess_type, open(path, 'rb') and os.fstat.  Only OSError is
\* caught; open() raises ValueError for a path with an embedded NUL byte.
HOpen ==
    /\ h.pc = "open"
    /\ IF h.path.slash
       THEN Respond(send_error(404, req.path))
       ELSE IF HasNul(h.path)
            THEN /\ raised' = TRUE
                 /\ h' = [h EXCEPT !.pc = "done"]
                 /\ responses' = responses
            ELSE IF Lookup(h.path).kind # "file"
                 THEN Respond(send_error(404, req.path))
                 ELSE Respond(end_headers(
                        Headers(200, guess_type(h.path.words[Len(h.path.words)]),
                                StSize(Lookup(h.path)),
                                [kind |-> "file", name |-> h.path.words[Len(h.path.words)]]),
                        req.path))
    /\ UNCHANGED <<startVars, connVars, ltVars, fs, req, changes, hist>>

\* The except branch that calls os.listdir once more before it gives up.
ListdirFailedRetry ==
    /\ IF hist.listdirs = 0
       THEN /\ h' = h
            /\ UNCHANGED <<responses, raised>>
       ELSE Respond(send_error(404, req.path))
    /\ hist' = [hist EXCEPT !.listdirs = @ + 1, !.listFailed = TRUE]

\* lines 171-173: except OSError: send_error(404); return None
ListdirFailed ==
    /\ Respond(send_error(404, req.path))
    /\ hist' = [hist EXCEPT !.listdirs = @ + 1, !.listFailed = TRUE]

\* list_directory lines 170-176: os.listdir, in the order the filesystem
\* enumerates.  It raises OSError when the directory is gone or no longer
\* a directory, or when the process may not read it (denied).
HListdir ==
    /\ h.pc = "listdir"
    /\ \E denied \in BOOLEAN :
        IF denied \/ ~isdir(h.path)
        THEN ListdirFailed
        ELSE /\ \E o \in (IF h.path.words = <<>> THEN Orders(Listed) ELSE {<<>>}) :
                 h' = [h EXCEPT !.pc = IF o = <<>> THEN "respond" ELSE "stat",
                                !.file_list = o, !.idx = 1, !.files = <<>>]
             /\ hist' = [HistInit EXCEPT !.listdirs = hist.listdirs + 1]
             /\ UNCHANGED <<responses, raised>>
    /\ UNCHANGED <<startVars, connVars, ltVars, fs, req, changes>>

\* lines 181-189: os.stat(fullname); an OSError zeroes the three fields.
\* stat_entry whose except branch assigns nothing: the fields keep the
\* values of the previous iteration.
stat_entry_stale(node) ==
    IF node.kind # "absent"
    THEN [modified_timestamp |-> node.mtime,
          modified_iso |-> IsoFormat(node.mtime),
          size_bytes |-> StSize(node)]
    ELSE h.st

stat_entry(node) ==
    IF node.kind # "absent"
    THEN [modified_timestamp |-> node.mtime,
          modified_iso |-> IsoFormat(node.mtime),
          size_bytes |-> StSize(node)]
    ELSE NoStat

HStat ==
    /\ h.pc = "stat"
    /\ LET name == h.file_list[h.idx]
           failed == fs[name].kind = "absent"
       IN  /\ h' = [h EXCEPT !.pc = "isdir", !.st = stat_entry(fs[name])]
           /\ hist' = [hist EXCEPT
                        !.statFailed = IF failed THEN @ \cup {name} ELSE @,
                        !.cleanGone = fs[name] = Absent,
                        !.touched = FALSE]
    /\ UNCHANGED <<startVars, connVars, ltVars, fs, req, responses, raised, changes>>

\* lines 197-198: the extension, lowercased, without its dot; None if absent
extension_of(name) ==
    LET extension == splitext(name)
    IN  IF extension # <<>> THEN Str(Lower(LStrip(extension, "."))) ELSE None

\* lines 200-208: the entry appended to files
file_entry(name, file_type, st, display_path) ==
    [name |-> name,
     extension |-> extension_of(name),
     type |-> file_type,
     size_bytes |-> st.size_bytes,
     modified_timestamp |-> st.modified_timestamp,
     modified_iso |-> st.modified_iso,
     path |-> ReplaceDoubleSep(PathJoin(display_path, name))]

\* line 175
display_path == Unquote(req.path)

\* AppendEntry that leaves out an entry whose stat call failed.
AppendEntrySkipFailed(file_type) ==
    LET name == h.file_list[h.idx] IN
    /\ h' = [h EXCEPT
                !.files = IF h.st.modified_iso = None THEN @
                          ELSE Append(@, file_entry(name, file_type, h.st, display_path)),
                !.idx = h.idx + 1,
                !.pc = IF h.idx < Len(h.file_list) THEN "stat" ELSE "respond"]
    /\ hist' = [hist EXCEPT
                !.gone = IF hist.cleanGone /\ ~hist.touched THEN @ \cup {name} ELSE @]

\* The entry is complete: append it and go on with the next name.
AppendEntry(file_type) ==
    LET name == h.file_list[h.idx] IN
    /\ h' = [h EXCEPT
                !.files = Append(@, file_entry(name, file_type, h.st, display_path)),
                !.idx = h.idx + 1,
                !.pc = IF h.idx < Len(h.file_list) THEN "stat" ELSE "respond"]
    /\ hist' = [hist EXCEPT
                !.gone = IF hist.cleanGone /\ ~hist.touched THEN @ \cup {name} ELSE @]

\* lines 191-193: os.path.isdir(fullname)
HIsdir ==
    /\ h.pc = "isdir"
    /\ IF fs[h.file_list[h.idx]].kind = "dir"
       THEN AppendEntry("directory")
       ELSE h' = [h EXCEPT !.pc = "islink"] /\ hist' = hist
    /\ UNCHANGED <<startVars, connVars, ltVars, fs, req, responses, raised, changes>>

\* lines 194-195: elif os.path.islink(fullname)
HIslink ==
    /\ h.pc = "islink"
    /\ AppendEntry(IF fs[h.file_list[h.idx]].link THEN "symlink" ELSE "file")
    /\ UNCHANGED <<startVars, connVars, ltVars, fs, req, responses, raised, changes>>

\* insert_sorted that puts e in front of the elements of equal timestamp.
insert_sorted_unstable(sorted, e) ==
    LET k == Cardinality({i \in 1..Len(sorted) :
                    sorted[i].modified_timestamp > e.modified_timestamp})
    IN  SubSeq(sorted, 1, k) \o <<e>> \o SubSeq(sorted, k + 1, Len(sorted))

\* One step of list.sort(key=modified_timestamp, reverse=True): e goes
\* behind every element whose timestamp is not smaller (the sort is stable).
insert_sorted(sorted, e) ==
    LET k == Cardinality({i \in 1..Len(sorted) :
                    sorted[i].modified_timestamp >= e.modified_timestamp})
    IN  SubSeq(sorted, 1, k) \o <<e>> \o SubSeq(sorted, k + 1, Len(sorted))

\* line 210
RECURSIVE sort_files(_, _)
sort_files(sorted, rest) ==
    IF rest = <<>> THEN sorted
    ELSE sort_files(insert_sorted(sorted, Head(rest)), Tail(rest))

\* lines 212-217
response_data(sorted) ==
    [directory |-> display_path,
     total_items |-> Len(sorted),
     files |-> sorted]

\* lines 219-231: the JSON document and its headers
listing_response(data) ==
    end_headers(Headers(200, "application/json; charset=utf-8", EncodedLen(data),
                        [kind |-> "json", data |-> data]),
                req.path)

HRespond ==
    /\ h.pc = "respond"
    /\ Respond(listing_response(response_data(sort_files(<<>>, h.files))))
    /\ UNCHANGED <<startVars, connVars, ltVars, fs, req, changes, hist>>

\* Another process creates, deletes or replaces an entry of the served
\* directory while the handler runs.
FSChange(n, node) ==
    /\ h.pc \notin {"idle", "done"}
    /\ changes < MaxChanges
    /\ node \in NodesOf(n)
    /\ node # fs[n]
    /\ fs' = [fs EXCEPT ![n] = node]
    /\ changes' = changes + 1
    /\ hist' = [hist EXCEPT
                !.touched = @ \/ (h.pc \in {"isdir", "islink"} /\ h.file_list[h.idx] = n)]
    /\ UNCHANGED <<startVars, connVars, ltVars, req, h, responses, raised>>

\* The server is serving in plaintext and a worker thread handles one
\* request of an accepted connection.
HandlerInit ==
    /\ pc = "serve"
    /\ skip_drive_check = TRUE
    /\ certfile = None
    /\ keyfile = None
    /\ attempt = 0
    /\ waits = 0
    /\ sock = "plain"
    /\ wraps = 0
    /\ exitCode = -1
    /\ everBound = TRUE
    /\ gate = "skipped"
    /\ accepting = 0
    /\ conn = [c \in Conns |-> IF c = 1 THEN "handling" ELSE "new"]
    /\ fs \in FileSystems
    /\ req \in Requests
    /\ HandlerIdle
    /\ LoadTestIdle

HandlerNext ==
    \/ HStart
    \/ HSendHead
    \/ HIndex
    \/ HOpen
    \/ HListdir
    \/ HStat
    \/ HIsdir
    \/ HIslink
    \/ HRespond
    \/ \E n \in Names, node \in Nodes : FSChange(n, node)

HandlerSpec == HandlerInit /\ [][HandlerNext]_vars

(***************************************************************************)
(* One request against a served root that holds presentation files and     *)
(* symbolic links, and does not change while the request is handled.       *)
(***************************************************************************)
NameDeck == <<"deck", ".", "PPTX">>
NameQuote == <<"my", "q", "deck", ".", "ppt">>
PolicyNames == {NameA, NameB, NameDeck, NameQuote}

File == [kind |-> "file", link |-> FALSE, mtime |-> 1]
Dir == [kind |-> "dir", link |-> FALSE, mtime |-> 1]
LinkToFile == [kind |-> "file", link |-> TRUE, mtime |-> 1]
LinkToDir == [kind |-> "dir", link |-> TRUE, mtime |-> 1]

PolicyNodesOf(n) ==
    CASE n = NameA -> {Absent, Broken, File, Dir, LinkToFile, LinkToDir}
      [] n = NameDeck -> {Absent, File, LinkToFile}
      [] OTHER -> {Absent, File}

PolicyFileSystems ==
    {f \in [PolicyNames -> {Absent, Broken, File, Dir, LinkToFile, LinkToDir}] :
        \A n \in PolicyNames : f[n] \in PolicyNodesOf(n)}

PolicyPaths ==
    { <<"/">>,
      <<"/", "a">>,
      <<"/", "a", "/">>,
      <<"/", "b", ".", "PDF">>,
      <<"/", "deck", ".", "PPTX">>,
      <<"/", "deck", ".", "PPTX", "?", "dl">>,
      <<"/", "deck", "%2e", "PPTX">>,
      <<"/", "my", "q", "deck", ".", "ppt">>,
      <<"/", "my", "%22", "deck", ".", "ppt">>,
      <<"/", "nope", ".", "pps">>,
      <<"/", "a", "?", "x", ".", "ppt">>,
      <<"/", "x", ".", "ppsx", "/">>,
      <<"/", ".", "ppt">> }

PolicyRequests == [method : {"GET", "OPTIONS"}, path : PolicyPaths]

PolicyInit ==
    /\ pc = "serve"
    /\ skip_drive_check = TRUE
    /\ certfile = None
    /\ keyfile = None
    /\ attempt = 0
    /\ waits = 0
    /\ sock = "plain"
    /\ wraps = 0
    /\ exitCode = -1
    /\ everBound = TRUE
    /\ gate = "skipped"
    /\ accepting = 0
    /\ conn = [c \in Conns |-> IF c = 1 THEN "handling" ELSE "new"]
    /\ fs \in PolicyFileSystems
    /\ req \in PolicyRequests
    /\ HandlerIdle
    /\ LoadTestIdle

PolicyNext ==
    \/ HStart
    \/ HSendHead
    \/ HIndex
    \/ HOpen
    \/ HListdir
    \/ HStat
    \/ HIsdir
    \/ HIslink
    \/ HRespond

PolicySpec == PolicyInit /\ [][PolicyNext]_vars

HandlerFixed ==
    /\ fs = [n \in Names |-> Absent]
    /\ req = [method |-> "GET", path |-> <<"/">>]
    /\ HandlerIdle

\* A run of the load test against a server that is serving.
LoadTestInit ==
    /\ pc = "serve"
    /\ skip_drive_check = TRUE
    /\ certfile = None
    /\ keyfile = None
    /\ attempt = 0
    /\ waits = 0
    /\ sock = "plain"
    /\ wraps = 0
    /\ exitCode = -1
    /\ everBound = TRUE
    /\ gate = "skipped"
    /\ ConnInit
    /\ HandlerFixed
    /\ num_requests \in 0..MaxRequests
    /\ replies = <<>>
    /\ results = <<>>
    /\ stats = NoStats

LoadTestNext ==
    \/ \E reply \in Replies : RequestCompletes(reply)
    \/ ComputeStats

LoadTestSpec == LoadTestInit /\ [][LoadTestNext]_vars

Init == StartInit /\ ConnInit /\ HandlerFixed /\ LoadTestIdle

Next ==
    \/ EnterGate
    \/ Poll
    \/ GateExit
    \/ CreateListener
    \/ EnableTls
    \/ TlsExit
    \/ \E c \in Conns : ClientConnect(c)
    \/ \E c \in Conns : Accept(c)
    \/ \E c \in Conns : HandshakeDone(c)
    \/ \E c \in Conns : HandshakeFail(c)
    \/ \E c \in Conns : WorkerFinish(c)
    \/ Interrupt
    \/ Shutdown
    \/ ProcessExit

Spec == Init /\ [][Next]_vars

\* The main thread, once interrupted, runs on by itself: the except clause
\* and the return from main are not waiting for anything.
StopSpec == Spec /\ WF_vars(Shutdown) /\ WF_vars(ProcessExit)

(***************************************************************************)
(* Properties of the startup sequence and of the accept loop (Spec)        *)
(***************************************************************************)

\* C1: a connection that stalls never delays the acceptance of another one:
\* whenever a connection waits in the backlog of the serving listener, the
\* listener thread is in its accept loop and not held inside get_request()
\* by some other connection.
C1_NoConnectionDelaysAnother ==
    \A c \in Conns :
        (Running /\ pc = "serve" /\ conn[c] = "queued") => accepting = 0

\* C2: at the moment a TLS load failure is detected, no bound or listening
\* socket exists.
C2_NoSocketAtTlsFailure ==
    pc = "tls_failed" => sock = "none"

\* The connections the listener has taken from the backlog.
Accepted == {c \in Conns : conn[c] \notin {"new", "queued"}}

\* C3: with a certificate configured (a non-empty --cert), the server serves
\* only behind a listening socket wrapped in TLS exactly once, no connection
\* is ever accepted on an unwrapped socket, and a certificate/key pair that
\* cannot be loaded never leads to serving: the process ends with status 1.
C3_TlsNeverPlaintext ==
    Truthy(certfile) =>
        /\ wraps <= 1
        /\ (pc = "serve" => sock = "tls" /\ wraps = 1)
        /\ (Accepted # {} => wraps = 1 /\ (sock = "tls" \/ pc = "stopped"))
        /\ (~LoadCertChainOK => pc # "serve")
        /\ (pc = "exited" /\ everBound => exitCode = 1 /\ sock = "closed")

C3_Witness ==
    /\ Truthy(certfile)
    /\ CleanPath(certfile) # certfile
    /\ pc = "serve"
    /\ \E c \in Conns : conn[c] = "responded"

\* C4: unless the readiness check is skipped, a listener exists only after
\* the gate succeeded; the gate makes at most MAX_RETRIES polls; when all
\* of them fail, the process exits with status 1 and no listener was ever
\* created or bound.
C4_ListenerOnlyAfterGate ==
    /\ attempt <= MAX_RETRIES
    /\ (~skip_drive_check /\ (everBound \/ sock # "none") => gate = "ok")
    /\ (gate = "exhausted" =>
            /\ attempt = MAX_RETRIES
            /\ ~everBound /\ sock = "none"
            /\ \A c \in Conns : conn[c] = "new"
            /\ pc \in {"gate_failed", "exited"}
            /\ (pc = "exited" => exitCode = 1))

C4_Witness ==
    /\ gate = "exhausted"
    /\ attempt = MAX_RETRIES
    /\ pc = "exited"
    /\ exitCode = 1

(***************************************************************************)
(* Properties of one request (HandlerSpec)                                 *)
(***************************************************************************)
Done == h.pc = "done"

\* The handler answered with a directory listing.
ListingDone ==
    /\ Done
    /\ Len(responses) = 1
    /\ responses[1].body.kind = "json"

Listing == responses[1].body.data

\* C5: every GET whose path names a directory of the served root is
\* answered 200 with Content-Type application/json; charset=utf-8, a
\* listing body and the Content-Length of the encoded body, with or without
\* a trailing separator and whatever the directory holds.  (The filesystem
\* did not change during the request.)
C5_DirectoryGetIsJsonListing ==
    (Done /\ req.method = "GET" /\ changes = 0 /\ ~raised
        /\ isdir(translate_path(req.path)))
    => /\ Len(responses) = 1
       /\ responses[1].status = 200
       /\ responses[1].ctype = "application/json; charset=utf-8"
       /\ responses[1].body.kind = "json"
       /\ responses[1].clen = EncodedLen(responses[1].body.data)

\* The components a client-side resolution of the request path walks:
\* the decoded path, without query, empty components and ".".
WalkedComps(path) ==
    SelectSeq(Split(Unquote(BeforeFirst(BeforeFirst(path, "?"), "#")), "/"),
              LAMBDA w : w # <<>> /\ w # <<".">>)

\* Resolving the path component by component from the root climbs above it.
EscapesRoot(path) ==
    LET comps == WalkedComps(path)
        Ups(k) == Cardinality({i \in 1..k : comps[i] = <<"..">>})
    IN  \E k \in 1..Len(comps) : Ups(k) > k - Ups(k)

\* C6: a GET whose path holds ".." segments that resolve outside the root
\* is answered with 404.
C6_TraversalIs404 ==
    (Done /\ req.method = "GET" /\ EscapesRoot(req.path))
    => /\ Len(responses) = 1
       /\ responses[1].status = 404

\* C7: every request is answered with exactly one response; no exception
\* escapes the handler.
C7_ExactlyOneResponse ==
    Done => Len(responses) = 1 /\ ~raised

\* The entry of the listing for an enumerated name.
EntriesOf(n) == {i \in 1..Len(Listing.files) : Listing.files[i].name = n}

\* The extension field each name of the model must be listed with.
ExpectedExtension(n) ==
    CASE n = NameB -> Str(<<"pdf">>)
      [] n = NameIndex -> Str(<<"html">>)
      [] OTHER -> None

\* C8: an enumerated entry whose stat call failed is still listed, with
\* size_bytes 0, modified_timestamp 0, modified_iso null, its name, its
\* extension and a type, which is "file" when the entry is gone; its
\* siblings are listed with the values stat reported, and the answer is 200.
\* A failed stat call never ends the handler without a response.
C8_StatFailureDegradesEntry ==
    /\ (hist.statFailed # {} => ~raised /\ (Done => ListingDone))
    /\ ListingDone =>
        /\ responses[1].status = 200
        /\ \A n \in hist.statFailed :
            /\ Cardinality(EntriesOf(n)) = 1
            /\ \A i \in EntriesOf(n) :
                LET e == Listing.files[i] IN
                /\ e.size_bytes = 0
                /\ e.modified_timestamp = 0
                /\ e.modified_iso = None
                /\ e.extension = ExpectedExtension(n)
                /\ e.type \in {"file", "directory", "symlink"}
                /\ (n \in hist.gone => e.type = "file")
        /\ \A i \in 1..Len(Listing.files) :
            LET e == Listing.files[i] IN
            e.name \notin hist.statFailed =>
                /\ e.modified_timestamp \in 1..MaxMtime
                /\ e.modified_iso = IsoFormat(e.modified_timestamp)
                /\ e.size_bytes > 0

\* A race-deleted entry, listed next to a sibling whose stat call succeeded.
C8_Witness ==
    /\ ListingDone
    /\ changes > 0
    /\ hist.gone # {}
    /\ \E i \in 1..Len(Listing.files) : Listing.files[i].modified_iso # None

\* C9: total_items is the number N of names the enumeration returned, and
\* files holds exactly N entries, one per enumerated name, also when
\* entries are created or deleted while the listing is built.
C9_TotalItemsIsEnumerationCount ==
    ListingDone =>
        /\ Listing.total_items = Len(h.file_list)
        /\ Len(Listing.files) = Len(h.file_list)
        /\ \A k \in 1..Len(h.file_list) :
            Cardinality(EntriesOf(h.file_list[k])) = 1

\* The directory changed after its enumeration: it no longer holds the
\* names that were enumerated.
C9_Witness ==
    /\ ListingDone
    /\ Len(h.file_list) >= 2
    /\ changes > 0
    /\ Listed # {h.file_list[k] : k \in 1..Len(h.file_list)}

\* The position of a name in the enumeration.
EnumIndex(n) == CHOOSE k \in 1..Len(h.file_list) : h.file_list[k] = n

\* C10: files is ordered by modified_timestamp descending, and entries of
\* equal timestamp keep their order of enumeration.
C10_SortedDescendingStable ==
    ListingDone =>
        \A i, j \in 1..Len(Listing.files) :
            i < j =>
                LET a == Listing.files[i]
                    b == Listing.files[j]
                IN  /\ a.modified_timestamp >= b.modified_timestamp
                    /\ (a.modified_timestamp = b.modified_timestamp
                            => EnumIndex(a.name) < EnumIndex(b.name))

\* Three entries, enumerated in another order than listed, two of them
\* stat-failed entries of timestamp 0.
C10_Witness ==
    /\ ListingDone
    /\ Len(Listing.files) = 3
    /\ Listing.files[1].modified_timestamp > 0
    /\ Listing.files[2].modified_timestamp = 0
    /\ Listing.files[3].modified_timestamp = 0
    /\ h.file_list[1] # Listing.files[1].name

\* C11: every response written, whatever the method, the path and the
\* status, carries the four CORS headers with their values.
C11_EveryResponseHasCors ==
    \A i \in 1..Len(responses) :
        /\ Cardinality(responses[i].cors) = 4
        /\ <<"Access-Control-Allow-Origin", "*">> \in responses[i].cors
        /\ <<"Access-Control-Allow-Methods", "GET, OPTIONS">> \in responses[i].cors
        /\ <<"Access-Control-Allow-Headers", "Range">> \in responses[i].cors
        /\ <<"Access-Control-Max-Age", "86400">> \in responses[i].cors

\* A 404 written by list_directory after the directory vanished.
C11_Witness ==
    /\ Done
    /\ Len(responses) = 1
    /\ responses[1].status = 404
    /\ h.path.words # <<>>
    /\ h.file_list = <<>>
    /\ changes > 0
    /\ req.path = <<"/", "a", "/">>

(***************************************************************************)
(* Properties of one request against an unchanging root (PolicySpec)       *)
(***************************************************************************)
\* The handler streamed the file of the served root named n.
ServedFile(n) ==
    /\ Done
    /\ req.method = "GET"
    /\ Len(responses) = 1
    /\ responses[1].status = 200
    /\ responses[1].body.kind = "file"
    /\ responses[1].body.name = n

\* C12: a GET that serves a file with a presentation extension gets the
\* MIME type of that extension and a Content-Disposition naming the file
\* with its double quotes escaped, however the URL spells the file; a GET
\* that serves another file (b.PDF: application/pdf) gets no
\* Content-Disposition.
C12_PresentationFilesAreDownloads ==
    /\ ServedFile(NameDeck) =>
            /\ responses[1].ctype =
                "application/vnd.openxmlformats-officedocument.presentationml.presentation"
            /\ responses[1].disposition = Str(<<"deck", ".", "PPTX">>)
    /\ ServedFile(NameQuote) =>
            /\ responses[1].ctype = "application/vnd.ms-powerpoint"
            /\ responses[1].disposition = Str(<<"my", "\\", "q", "deck", ".", "ppt">>)
    /\ ServedFile(NameB) =>
            /\ responses[1].ctype = "application/pdf"
            /\ responses[1].disposition = None
    /\ ServedFile(NameA) => responses[1].disposition = None

(***************************************************************************)
(* Properties of the shutdown and of the readiness gate (Spec, StopSpec)   *)
(***************************************************************************)
Interrupted == pc \in {"interrupted", "shut_down", "stopped"}

\* C13: after an interrupt received while serving, no further connection
\* is accepted, the shutdown call returns, and the process ends with
\* status 0 and the listening socket closed, whether or not handler threads
\* are still running.
C13_InterruptStopsServer ==
    /\ [](Interrupted => accepting = 0)
    /\ [](pc = "stopped" => exitCode = 0 /\ sock = "closed")
    /\ [][Interrupted => Accepted' = Accepted]_vars
    /\ (pc = "interrupted" ~> pc = "shut_down")
    /\ (pc = "interrupted" ~> (pc = "stopped" /\ exitCode = 0 /\ sock = "closed"))

\* The process ended on an interrupt while a handler thread was running
\* and a connection was waiting in the backlog.
C13_Witness ==
    /\ pc = "stopped"
    /\ exitCode = 0
    /\ sock = "closed"
    /\ \E c \in Conns : conn[c] = "handling"
    /\ \E c \in Conns : conn[c] = "queued"

\* C14: in a listing, an entry that is a symbolic link has type symlink,
\* whatever its target is; a directory that is not a link has type
\* directory; every other entry has type file.
C14_SymlinkTakesPrecedence ==
    ListingDone =>
        \A i \in 1..Len(Listing.files) :
            LET e == Listing.files[i]
                node == fs[e.name]
            IN  e.type = IF node.link THEN "symlink"
                         ELSE IF node.kind = "dir" THEN "directory"
                         ELSE "file"

\* C15: an OPTIONS request, whatever its path, is answered 200 with an
\* empty body and the four CORS headers; the handler translates no path,
\* enumerates no directory and opens no file for it.
C15_OptionsIsBare200 ==
    req.method = "OPTIONS" =>
        /\ h.pc \in {"idle", "done"}
        /\ [h EXCEPT !.pc = "idle"] = HIdle
        /\ ~raised
        /\ Done =>
            /\ Len(responses) = 1
            /\ responses[1].status = 200
            /\ responses[1].body = [kind |-> "empty"]
            /\ responses[1].clen = 0
            /\ responses[1].location = None
            /\ Cardinality(responses[1].cors) = 4
            /\ \A name \in {"Access-Control-Allow-Origin", "Access-Control-Allow-Methods",
                              "Access-Control-Allow-Headers", "Access-Control-Max-Age"} :
                    \E hd \in responses[1].cors : hd[1] = name

\* OPTIONS on the path of a directory that a GET would list.
C15_Witness ==
    /\ Done
    /\ req = [method |-> "OPTIONS", path |-> <<"/", "a", "/">>]
    /\ fs[NameA] = Dir
    /\ Len(responses) = 1

(***************************************************************************)
(* Properties of the load test (LoadTestSpec)                              *)
(***************************************************************************)
\* C16: a request counts as successful exactly when its response has status
\* 200 and a body that parses as JSON and contains total_items; every
\* other outcome counts as failed, and the statistics count accordingly.
C16_SuccessIffListingJson ==
    /\ \A i \in 1..Len(results) :
            results[i].success <=>
                /\ replies[i].kind = "response"
                /\ replies[i].status = 200
                /\ replies[i].body.json # "invalid"
                /\ replies[i].body.has_total
    /\ stats.done =>
            /\ stats.successful =
                    Cardinality({i \in 1..Len(results) :
                        /\ replies[i].kind = "response"
                        /\ replies[i].status = 200
                        /\ replies[i].body.json # "invalid"
                        /\ replies[i].body.has_total})
            /\ stats.failed = stats.total_requests - stats.successful

(***************************************************************************)
(* Properties of a failed enumeration (HandlerSpec)                        *)
(***************************************************************************)
\* C17: when os.listdir fails (the directory was deleted or replaced after
\* the directory check, or may not be read), the handler ends at once with
\* exactly one response, a 404 without listing body; it called os.listdir
\* once, no exception escapes and no connection changes its state.
C17_FailedEnumerationIsOne404 ==
    /\ hist.listdirs <= 1
    /\ hist.listFailed =>
            /\ Done
            /\ hist.listdirs = 1
            /\ Len(responses) = 1
            /\ responses[1].status = 404
            /\ responses[1].body.kind = "error"
            /\ ~raised
            /\ conn = [c \in Conns |-> IF c = 1 THEN "handling" ELSE "new"]

\* The directory a was deleted or replaced between the directory check of
\* send_head and the enumeration.
C17_Witness ==
    /\ hist.listFailed
    /\ Done
    /\ h.path.words = <<NameA>>
    /\ fs[NameA].kind # "dir"
    /\ changes = 1
    /\ Len(responses) = 1

\* C18: in a listing, the directory field is the URL-decoded path
\* component of the request (without its query string), and the path field
\* of every entry is that value joined with the entry name by exactly one
\* separator, with no doubled separator in it.
C18_EntryPathIsParentJoinedName ==
    ListingDone =>
        LET parent == Unquote(BeforeFirst(req.path, "?")) IN
        /\ Listing.directory = parent
        /\ \A i \in 1..Len(Listing.files) :
            LET e == Listing.files[i] IN
            /\ e.path = RStrip(parent, "/") \o <<"/">> \o e.name
            /\ \A k \in 1..(Len(e.path) - 1) : ~(e.path[k] = "/" /\ e.path[k + 1] = "/")

\* C19: the gate succeeds at the first poll that finds the process, after
\* k failed polls and exactly k waits; an exhausted gate made MAX_RETRIES
\* polls and one wait less (none after the last poll); once the gate has
\* returned, there is no further poll and no further wait.
C19_GateWaitsBetweenPolls ==
    /\ [](pc = "poll" => gate = "pending" /\ waits = attempt /\ attempt < MAX_RETRIES)
    /\ [](gate = "ok" => attempt >= 1 /\ waits = attempt - 1)
    /\ [](gate = "exhausted" => attempt = 10 /\ waits = 9)
    /\ [](gate = "skipped" => attempt = 0 /\ waits = 0)
    /\ [][gate # "pending" => attempt' = attempt /\ waits' = waits]_vars
    /\ [][attempt' # attempt => gate = "pending" /\ attempt' = attempt + 1
                                /\ waits' \in {waits, waits + 1}]_vars

\* The gate succeeded at its fourth poll and the server is serving.
C19_Witness ==
    /\ gate = "ok"
    /\ attempt = 4
    /\ waits = 3
    /\ pc = "serve"

\* The request target up to its query string ends in a presentation
\* extension: a dot that follows a non-empty name, then ppsx, pptx, ppt or
\* pps in any case.
RawPathHasForcedExtension ==
    LET p == BeforeFirst(req.path, "?")
        n == Len(p)
    IN  /\ n >= 3
        /\ p[n] \in {"ppsx", "pptx", "ppt", "pps", "PPTX"}
        /\ p[n - 1] = "."
        /\ p[n - 2] \notin {"/", "."}

\* C20: a response carries Content-Disposition exactly when the raw
\* request path, without its query string, ends in a presentation
\* extension, whatever the method and the status: also on 404 and OPTIONS
\* responses, and never for another path.
C20_DispositionFromRawPath ==
    \A i \in 1..Len(responses) :
        (responses[i].disposition # None) <=> RawPathHasForcedExtension

\* A 404 for a missing presentation file carries the header.
C20_Witness ==
    /\ Done
    /\ req = [method |-> "GET", path |-> <<"/", "nope", ".", "pps">>]
    /\ Len(responses) = 1
    /\ responses[1].status = 404
    /\ responses[1].disposition # None

====
